---- MODULE Spec2Model ----
(***************************************************************************)
(* Model of the vector visualizer: the synthetic dataset generator (the Go *)
(* backend's generateVectorData and the TypeScript MockDataService), the   *)
(* block-averaging projector projectVectorsTo3D, the Go HTTP handler       *)
(* handleVectorData (one request, and two overlapping requests), the data  *)
(* analysis library and the state of the page's React components.          *)
(*                                                                         *)
(* Numbers.  A value drawn by rand.Float64() / Math.random() is k/RandUnits *)
(* for k in 0..RandUnits-1.  Vector and center components are integers     *)
(* counting steps of 1/(4*RandUnits), so that center = 2r-1 and            *)
(* noise = r/2 - 1/4 are exact.  Floating-point rounding is not modelled.  *)
(* A JavaScript number computed by the projector is a record               *)
(* [kind, num, den]: a reduced fraction num/den of those steps, or NaN,    *)
(* Infinity, -Infinity as the division of the language produces them.      *)
(***************************************************************************)
EXTENDS Integers, Sequences, FiniteSets, TLC

VARIABLES
    rng,             \* state of the process-wide random source
    impl,            \* which generator is running: "go" or "ts"
    limit,           \* generator argument: number of items asked for
    dimensions,      \* generator argument: vector length asked for
    clusterCenters,  \* the centers built by the running call
    data,            \* items produced so far by the running call
    pc,              \* position of the generator call
    items,           \* projector: the input sequence
    projected,       \* projector: the returned sequence
    blocks,          \* projector: per item, the three slices and divisors
    ppc,             \* position of the projector call
    request,         \* HTTP: the request being served
    response,        \* HTTP: the response written
    calls,           \* concurrent requests: the state local to each call
    adata,           \* analysis: the items given to the analysis functions
    maxArg,          \* analysis: maxCardinality, maxClusters
    fields,          \* analysis: what analyzeMetadataFields returned
    topClusters,     \* analysis: what getTopClusters returned
    apc,             \* analysis: the functions that have returned
    parent,          \* VectorVisualization: the state of the component
    scene,           \* Scene: the state of the component
    fetches          \* Scene: the fetches started, in order of their start

vars == <<rng, impl, limit, dimensions, clusterCenters, data, pc,
          items, projected, blocks, ppc, request, response, calls,
          adata, maxArg, fields, topClusters, apc, parent, scene, fetches>>

genVars == <<impl, limit, dimensions, clusterCenters, data, pc>>
projVars == <<items, projected, blocks, ppc>>
httpVars == <<request, response>>
concVars == <<calls>>
anaVars == <<adata, maxArg, fields, topClusters, apc>>
sceneVars == <<parent, scene, fetches>>
otherVars == <<concVars, anaVars, sceneVars>>

----------------------------------------------------------------------------
(* Bounds of the model *)

MaxSeed == 49
RandUnits == 8
MaxLimit == 3
MaxDimensions == 4
MaxLen == 11
MaxQuery == 3

----------------------------------------------------------------------------
(* Fixed vocabularies *)

sampleClusters ==
    <<"Group A", "Group B", "Group C", "Group D", "Group E",
      "Group F", "Group G", "Group H", "Group I", "Group J">>

sampleNames ==
    <<"Alpha", "Beta", "Gamma", "Delta", "Epsilon", "Zeta", "Eta", "Theta",
      "Iota", "Kappa", "Lambda", "Mu", "Nu", "Xi", "Omicron", "Pi", "Rho",
      "Sigma", "Tau", "Upsilon", "Phi", "Chi", "Psi", "Omega">>

sampleAttributes ==
    <<"Small", "Medium", "Large", "Extra Large", "Compact", "Expanded",
      "Basic", "Advanced", "Premium", "Standard", "Custom", "Regular",
      "Special", "Limited", "Unlimited">>

sampleCategories ==
    <<"Primary", "Secondary", "Tertiary", "Quaternary", "Quinary", "Senary",
      "Septenary", "Octonary", "Nonary", "Denary">>

sampleTypes ==
    <<"Type A", "Type B", "Type C", "Type D", "Type E", "Type F", "Type G",
      "Type H", "Type I", "Type J">>

sampleRatings == <<1, 2, 3, 4, 5>>

sampleStatuses == <<"Active", "Inactive", "Pending", "Archived", "Draft">>

samplePriorities == <<"Low", "Medium", "High", "Critical">>

sampleRegions == <<"North", "South", "East", "West", "Central">>

sampleDepartments ==
    <<"Sales", "Marketing", "Engineering", "Support", "Finance", "HR">>

keyChars ==
    <<"A","B","C","D","E","F","G","H","I","J","K","L","M","N","O","P","Q",
      "R","S","T","U","V","W","X","Y","Z","a","b","c","d","e","f","g","h",
      "i","j","k","l","m","n","o","p","q","r","s","t","u","v","w","x","y",
      "z","0","1","2","3","4","5","6","7","8","9">>

----------------------------------------------------------------------------
(* The random source.  Both programs draw from one pseudo-random stream    *)
(* per process (math/rand's global source, seeded in main; Math.random).   *)
(* The stream is a counter-based generator: the state counts the draws and *)
(* the value of a draw is a fixed scrambling of the state.                 *)

Advance(s, k) == (s + k) % 65537

Raw(s) == ((s % 65537) * 25173) % 65537

\* rand.Intn(n): an integer in 0..n-1
Intn(n, s) == Raw(s) % n

\* rand.Float64() and Math.random(): the numerator k of the value k/RandUnits
Float64(s) == Raw(s) % RandUnits

\* Math.floor(Math.random() * n)
FloorRandom(n, s) == (Float64(s) * n) \div RandUnits

----------------------------------------------------------------------------
(* Helpers of both generators *)

\* index of x in array (0-based), -1 when absent
IndexOf(array, x) ==
    IF \E k \in 1..Len(array) : array[k] = x
    THEN (CHOOSE k \in 1..Len(array) :
              array[k] = x /\ \A m \in 1..(k - 1) : array[m] # x) - 1
    ELSE -1

RECURSIVE Pow10(_)
Pow10(n) == IF n <= 0 THEN 1 ELSE 10 * Pow10(n - 1)

\* a center component rand*2 - 1 and a noise term rand*0.5 - 0.25, counted
\* in steps of 1/(4*RandUnits)
CenterComponent(s) == 8 * Float64(s) - 4 * RandUnits

\* mutant: the noise term rand - 0.5
NoiseWide(s) == 4 * Float64(s) - 2 * RandUnits

Noise(s) == 2 * Float64(s) - RandUnits

----------------------------------------------------------------------------
(* Go backend: helpers *)

getRandomItem(array, s) == array[Intn(Len(array), s) + 1]

\* mutant: the shuffle copies shuffled[j] to shuffled[i] without swapping
RECURSIVE FisherYatesCopy(_, _, _)
FisherYatesCopy(shuffled, i, s) ==
    IF i <= 0
    THEN [arr |-> shuffled, rng |-> s]
    ELSE LET j == Intn(i + 1, s)
         IN  FisherYatesCopy([shuffled EXCEPT ![i + 1] = shuffled[j + 1]],
                             i - 1, Advance(s, 1))

RECURSIVE FisherYates(_, _, _)
FisherYates(shuffled, i, s) ==
    IF i <= 0
    THEN [arr |-> shuffled, rng |-> s]
    ELSE LET j == Intn(i + 1, s)
         IN  FisherYates([shuffled EXCEPT ![i + 1] = shuffled[j + 1],
                                          ![j + 1] = shuffled[i + 1]],
                         i - 1, Advance(s, 1))

getRandomItems(array, minItems, maxItems, s) ==
    LET numItems == Intn(maxItems - minItems + 1, s) + minItems
        sh == FisherYates(array, Len(array) - 1, Advance(s, 1))
    IN  [val |-> SubSeq(sh.arr, 1, numItems), rng |-> sh.rng]

RECURSIVE generateRandomKey(_, _)
generateRandomKey(length, s) ==
    IF length <= 0
    THEN ""
    ELSE keyChars[Intn(Len(keyChars), s) + 1]
             \o generateRandomKey(length - 1, Advance(s, 1))

\* the result counted in steps of 10^-decimals; int() truncates
getRandomNumber(min, max, decimals, s) ==
    ((min * RandUnits + Float64(s) * (max - min)) * Pow10(decimals))
        \div RandUnits

Digits == <<"0", "1", "2", "3", "4", "5", "6", "7", "8", "9">>

\* strconv.Itoa
RECURSIVE Itoa(_)
Itoa(n) ==
    IF n < 0 THEN "-" \o Itoa(-n)
    ELSE IF n < 10 THEN Digits[n + 1]
    ELSE Itoa(n \div 10) \o Digits[(n % 10) + 1]

----------------------------------------------------------------------------
(* Go backend: generateVectorData *)

\* the first loop: one center per entry of sampleClusters
goClusterCenters(dims, s) ==
    [c \in 1..Len(sampleClusters) |->
        [j \in 1..dims |-> CenterComponent(Advance(s, (c - 1) * dims + j - 1))]]

\* mutant: up to six tags
goMetadataSixTags(s) ==
    [name       |-> getRandomItem(sampleAttributes, s) \o " "
                        \o getRandomItem(sampleNames, Advance(s, 1)),
     type       |-> getRandomItem(sampleTypes, Advance(s, 2)),
     category   |-> getRandomItem(sampleCategories, Advance(s, 3)),
     rating     |-> getRandomItem(sampleRatings, Advance(s, 4)),
     value      |-> getRandomNumber(10, 1000, 2, Advance(s, 5)),
     status     |-> getRandomItem(sampleStatuses, Advance(s, 6)),
     priority   |-> getRandomItem(samplePriorities, Advance(s, 7)),
     region     |-> getRandomItem(sampleRegions, Advance(s, 8)),
     department |-> getRandomItem(sampleDepartments, Advance(s, 9)),
     created    |-> Intn(365, Advance(s, 10)) * 24 * 60 * 60,
     isActive   |-> 5 * Float64(Advance(s, 11)) > RandUnits,
     score      |-> Intn(100, Advance(s, 12)) + 1,
     tags       |-> getRandomItems(sampleAttributes, 0, 6, Advance(s, 13)).val]

\* lines 163-177: the metadata map
goMetadata(s) ==
    [name       |-> getRandomItem(sampleAttributes, s) \o " "
                        \o getRandomItem(sampleNames, Advance(s, 1)),
     type       |-> getRandomItem(sampleTypes, Advance(s, 2)),
     category   |-> getRandomItem(sampleCategories, Advance(s, 3)),
     rating     |-> getRandomItem(sampleRatings, Advance(s, 4)),
     value      |-> getRandomNumber(10, 1000, 2, Advance(s, 5)),
     status     |-> getRandomItem(sampleStatuses, Advance(s, 6)),
     priority   |-> getRandomItem(samplePriorities, Advance(s, 7)),
     region     |-> getRandomItem(sampleRegions, Advance(s, 8)),
     department |-> getRandomItem(sampleDepartments, Advance(s, 9)),
     created    |-> Intn(365, Advance(s, 10)) * 24 * 60 * 60,
     isActive   |-> 5 * Float64(Advance(s, 11)) > RandUnits,
     score      |-> Intn(100, Advance(s, 12)) + 1,
     tags       |-> getRandomItems(sampleAttributes, 0, 5, Advance(s, 13)).val]

\* mutant: ids numbered from 1
goItemIdFromOne(i, centers, dims, s) ==
    LET cl == getRandomItems(sampleClusters, 1, 3, s)
        clusters == cl.val
        primaryClusterIdx ==
            IF Len(clusters) = 0 THEN -1 ELSE IndexOf(sampleClusters, clusters[1])
        center == centers[primaryClusterIdx + 1]
        s1 == cl.rng
        vector == [j \in 1..dims |-> center[j] + Noise(Advance(s1, j - 1))]
        s2 == Advance(s1, dims)
        s3 == getRandomItems(sampleAttributes, 0, 5, Advance(s2, 13)).rng
    IN  IF primaryClusterIdx < 0
        THEN [ok |-> FALSE, rng |-> s1]
        ELSE [ok |-> TRUE,
              item |-> [id |-> Itoa(i + 1),
                        key |-> generateRandomKey(8, s3),
                        vector |-> vector,
                        metadata |-> goMetadata(s2),
                        clusters |-> clusters],
              rng |-> Advance(s3, 8)]

\* one iteration of the item loop; ok = FALSE is a run-time panic
\* (clusters[0] or clusterCenters[-1] out of range)
goItem(i, centers, dims, s) ==
    LET cl == getRandomItems(sampleClusters, 1, 3, s)
        clusters == cl.val
        primaryClusterIdx ==
            IF Len(clusters) = 0 THEN -1 ELSE IndexOf(sampleClusters, clusters[1])
        center == centers[primaryClusterIdx + 1]
        s1 == cl.rng
        vector == [j \in 1..dims |-> center[j] + Noise(Advance(s1, j - 1))]
        s2 == Advance(s1, dims)
        s3 == getRandomItems(sampleAttributes, 0, 5, Advance(s2, 13)).rng
    IN  IF primaryClusterIdx < 0
        THEN [ok |-> FALSE, rng |-> s1]
        ELSE [ok |-> TRUE,
              item |-> [id |-> Itoa(i),
                        key |-> generateRandomKey(8, s3),
                        vector |-> vector,
                        metadata |-> goMetadata(s2),
                        clusters |-> clusters],
              rng |-> Advance(s3, 8)]

\* the number of draws one iteration of the item loop makes
goItemDraws(dims) ==
    (1 + Len(sampleClusters) - 1) + dims + 13 + (1 + Len(sampleAttributes) - 1) + 8

\* the whole call: the centers, then iteration i of the loop starts where
\* iteration i-1 left the random source; make() panics on a negative length
\* or capacity.  (The centers and the loop's results are bound by a
\* quantifier so that they are computed once.)
generateVectorData(lim, dims, s) ==
    IF dims < 0 \/ lim < 0
    THEN [ok |-> FALSE, data |-> <<>>, rng |-> s]
    ELSE LET s0 == Advance(s, Len(sampleClusters) * dims)
         IN  CHOOSE g \in
                 {[ok |-> \A i \in 1..lim : results[i].ok,
                   data |-> IF \A i \in 1..lim : results[i].ok
                            THEN [i \in 1..lim |-> results[i].item]
                            ELSE <<>>,
                   rng |-> Advance(s0, lim * goItemDraws(dims))] :
                  results \in
                      {[i \in 1..lim |->
                           goItem(i - 1, centers, dims,
                                  Advance(s0, (i - 1) * goItemDraws(dims)))] :
                       centers \in {goClusterCenters(dims, s)}}} : TRUE

----------------------------------------------------------------------------
(* TypeScript MockDataService *)

getRandomItemTS(array, s) == array[FloorRandom(Len(array), s) + 1]

\* the comparator () => 0.5 - Math.random(): its sign
Comparator(s) ==
    IF 2 * Float64(s) < RandUnits THEN 1
    ELSE IF 2 * Float64(s) = RandUnits THEN 0 ELSE -1

\* Array.prototype.sort with that comparator, as an insertion sort: the
\* element taken from index i moves left while the comparator is positive
RECURSIVE SortInsert(_, _, _, _)
SortInsert(a, j, element, s) ==
    IF j < 0
    THEN [arr |-> [a EXCEPT ![1] = element], rng |-> s]
    ELSE IF Comparator(s) > 0
         THEN SortInsert([a EXCEPT ![j + 2] = a[j + 1]], j - 1, element,
                         Advance(s, 1))
         ELSE [arr |-> [a EXCEPT ![j + 2] = element], rng |-> Advance(s, 1)]

RECURSIVE SortRandom(_, _, _)
SortRandom(a, i, s) ==
    IF i >= Len(a)
    THEN [arr |-> a, rng |-> s]
    ELSE LET r == SortInsert(a, i - 1, a[i + 1], s)
         IN  SortRandom(r.arr, i + 1, r.rng)

\* Array.prototype.slice(from, to) on 0-based indices, to exclusive
Slice(a, from, to) ==
    LET hi == IF to > Len(a) THEN Len(a) ELSE to
    IN  IF from >= hi THEN <<>> ELSE SubSeq(a, from + 1, hi)

getRandomItemsTS(array, minItems, maxItems, s) ==
    LET numItems == FloorRandom(maxItems - minItems + 1, s) + minItems
        shuffled == SortRandom(array, 1, Advance(s, 1))
    IN  [val |-> Slice(shuffled.arr, 0, numItems), rng |-> shuffled.rng]

\* Number(value.toFixed(decimals)), counted in steps of 10^-decimals
getRandomNumberTS(min, max, decimals, s) ==
    LET num == (Float64(s) * (max - min) + min * RandUnits) * Pow10(decimals)
    IN  (2 * num + RandUnits) \div (2 * RandUnits)

RECURSIVE generateRandomKeyTS(_, _)
generateRandomKeyTS(length, s) ==
    IF length <= 0
    THEN ""
    ELSE keyChars[FloorRandom(Len(keyChars), s) + 1]
             \o generateRandomKeyTS(length - 1, Advance(s, 1))

\* Array.from({ length: dimensions }, ...): a negative length counts as 0
tsClusterCenters(dims, s) ==
    LET n == IF dims < 0 THEN 0 ELSE dims
    IN  [c \in 1..Len(sampleClusters) |->
            [j \in 1..n |-> CenterComponent(Advance(s, (c - 1) * n + j - 1))]]

tsMetadata(s) ==
    [name       |-> getRandomItemTS(sampleAttributes, s) \o " "
                        \o getRandomItemTS(sampleNames, Advance(s, 1)),
     type       |-> getRandomItemTS(sampleTypes, Advance(s, 2)),
     category   |-> getRandomItemTS(sampleCategories, Advance(s, 3)),
     rating     |-> getRandomItemTS(sampleRatings, Advance(s, 4)),
     value      |-> getRandomNumberTS(10, 1000, 2, Advance(s, 5)),
     status     |-> getRandomItemTS(sampleStatuses, Advance(s, 6)),
     priority   |-> getRandomItemTS(samplePriorities, Advance(s, 7)),
     region     |-> getRandomItemTS(sampleRegions, Advance(s, 8)),
     department |-> getRandomItemTS(sampleDepartments, Advance(s, 9)),
     created    |-> getRandomNumberTS(0, 365 * 24 * 60 * 60, 0, Advance(s, 10)),
     isActive   |-> 5 * Float64(Advance(s, 11)) > RandUnits,
     score      |-> getRandomNumberTS(1, 100, 0, Advance(s, 12)),
     tags       |-> getRandomItemsTS(sampleAttributes, 0, 5, Advance(s, 13)).val]

\* one iteration of the item loop; ok = FALSE is the TypeError thrown by
\* center.map when the center is undefined
tsItem(i, centers, s) ==
    LET cl == getRandomItemsTS(sampleClusters, 1, 3, s)
        clusters == cl.val
        primaryClusterIdx ==
            IF Len(clusters) = 0 THEN -1 ELSE IndexOf(sampleClusters, clusters[1])
        center == centers[primaryClusterIdx + 1]
        s1 == cl.rng
        vector == [j \in 1..Len(center) |-> center[j] + Noise(Advance(s1, j - 1))]
        s2 == Advance(s1, Len(center))
        s3 == getRandomItemsTS(sampleAttributes, 0, 5, Advance(s2, 13)).rng
    IN  IF primaryClusterIdx < 0
        THEN [ok |-> FALSE, rng |-> s1]
        ELSE [ok |-> TRUE,
              item |-> [id |-> i,
                        key |-> generateRandomKeyTS(8, s3),
                        vector |-> vector,
                        metadata |-> tsMetadata(s2),
                        clusters |-> clusters],
              rng |-> Advance(s3, 8)]

----------------------------------------------------------------------------
(* JavaScript numbers of the projector *)

RECURSIVE Gcd(_, _)
Gcd(a, b) == IF b = 0 THEN a ELSE Gcd(b, a % b)

Abs(a) == IF a < 0 THEN -a ELSE a

NaN == [kind |-> "NaN", num |-> 0, den |-> 0]
PlusInfinity == [kind |-> "Infinity", num |-> 1, den |-> 0]
MinusInfinity == [kind |-> "-Infinity", num |-> -1, den |-> 0]

\* the finite number n/d, d > 0, in lowest terms
Fraction(n, d) ==
    LET g == Gcd(Abs(n), d)
    IN  [kind |-> "finite", num |-> n \div g, den |-> d \div g]

\* the operator / applied to an integer-valued sum and a count
JsDivide(a, b) ==
    IF b = 0
    THEN IF a = 0 THEN NaN ELSE IF a > 0 THEN PlusInfinity ELSE MinusInfinity
    ELSE Fraction(a, b)

\* the operator * applied to a number and a positive integer
JsTimes(x, k) ==
    IF x.kind = "finite" THEN Fraction(x.num * k, x.den) ELSE x

\* reduce((sum, val) => sum + val, 0)
RECURSIVE ReduceSum(_, _)
ReduceSum(a, sum) ==
    IF Len(a) = 0 THEN sum ELSE ReduceSum(Tail(a), sum + Head(a))

----------------------------------------------------------------------------
(* projectVectorsTo3D *)

Undefined == "undefined"

\* clusters[0]
FirstCluster(clusters) == IF Len(clusters) = 0 THEN Undefined ELSE clusters[1]

\* mutant: the second block gets the extra element as soon as there is a
\* remainder
projectBlocksEagerY(vector) ==
    LET dims == Len(vector)
        dimPerAxis == dims \div 3
        remainder == dims % 3
        xDims == dimPerAxis + (IF remainder > 0 THEN 1 ELSE 0)
        yDims == dimPerAxis + (IF remainder > 0 THEN 1 ELSE 0)
        zDims == dimPerAxis
    IN  [xDims |-> xDims, yDims |-> yDims, zDims |-> zDims,
         x |-> Slice(vector, 0, xDims),
         y |-> Slice(vector, xDims, xDims + yDims),
         z |-> Slice(vector, xDims + yDims, dims)]

\* lines 7-16 and the three slices of lines 21-27
projectBlocks(vector) ==
    LET dims == Len(vector)
        dimPerAxis == dims \div 3
        remainder == dims % 3
        xDims == dimPerAxis + (IF remainder > 0 THEN 1 ELSE 0)
        yDims == dimPerAxis + (IF remainder > 1 THEN 1 ELSE 0)
        zDims == dimPerAxis
    IN  [xDims |-> xDims, yDims |-> yDims, zDims |-> zDims,
         x |-> Slice(vector, 0, xDims),
         y |-> Slice(vector, xDims, xDims + yDims),
         z |-> Slice(vector, xDims + yDims, dims)]

scale == 5

\* mutant: the z coordinate is not scaled
projectPositionUnscaledZ(vector) ==
    LET b == projectBlocks(vector)
        position == <<JsDivide(ReduceSum(b.x, 0), b.xDims),
                      JsDivide(ReduceSum(b.y, 0), b.yDims),
                      JsDivide(ReduceSum(b.z, 0), b.zDims)>>
    IN  <<JsTimes(position[1], scale), JsTimes(position[2], scale),
          position[3]>>

\* lines 19-32
projectPosition(vector) ==
    LET b == projectBlocks(vector)
        position == <<JsDivide(ReduceSum(b.x, 0), b.xDims),
                      JsDivide(ReduceSum(b.y, 0), b.yDims),
                      JsDivide(ReduceSum(b.z, 0), b.zDims)>>
    IN  <<JsTimes(position[1], scale), JsTimes(position[2], scale),
          JsTimes(position[3], scale)>>

\* mutant: primaryCluster is the last cluster of the item
projectItemLastCluster(item) ==
    [f \in DOMAIN item \cup {"position", "primaryCluster"} |->
        IF f = "position" THEN projectPosition(item.vector)
        ELSE IF f = "primaryCluster"
             THEN (IF Len(item.clusters) = 0 THEN Undefined
                   ELSE item.clusters[Len(item.clusters)])
        ELSE item[f]]

\* the object returned for one item: { ...item, position, primaryCluster }
projectItem(item) ==
    [f \in DOMAIN item \cup {"position", "primaryCluster"} |->
        IF f = "position" THEN projectPosition(item.vector)
        ELSE IF f = "primaryCluster" THEN FirstCluster(item.clusters)
        ELSE item[f]]

projectVectorsTo3D(input) == [k \in 1..Len(input) |-> projectItem(input[k])]

\* the call projectVectorsTo3D(items)
Project ==
    /\ ppc = "called"
    /\ projected' = projectVectorsTo3D(items)
    /\ blocks' = [k \in 1..Len(items) |-> projectBlocks(items[k].vector)]
    /\ ppc' = "done"
    /\ UNCHANGED <<items, rng, genVars, httpVars, otherVars>>

----------------------------------------------------------------------------
(* The generator as a process: the call builds the centers, then the loop  *)
(* produces one item per step, then the call returns.                      *)

NoBody == [kind |-> "none", text |-> "", data |-> <<>>, total |-> 0]
NoRequest == [method |-> "", limit |-> <<>>, dimensions |-> <<>>]
NoResponse == [status |-> 0, headers |-> <<>>, body |-> NoBody]

InitProjector ==
    /\ items = <<>>
    /\ projected = <<>>
    /\ blocks = <<>>
    /\ ppc = "idle"

InitHttp ==
    /\ request = NoRequest
    /\ response = NoResponse

\* no concurrent request is being served
InitConcurrent ==
    calls = <<>>

\* no analysis function has been called
InitAnalysis ==
    /\ adata = <<>>
    /\ maxArg = 0
    /\ fields = <<>>
    /\ topClusters = <<>>
    /\ apc = {}

\* the page is not rendered
InitUnmounted ==
    /\ parent = [numPoints |-> 0, colorField |-> "", colorableFields |-> <<>>,
                 colorMapping |-> <<>>, colorValues |-> <<>>]
    /\ scene = [data |-> <<>>, rawData |-> <<>>, colorableFields |-> <<>>,
                colorMapping |-> <<>>, colorValues |-> <<>>,
                loading |-> FALSE, error |-> "null"]
    /\ fetches = <<>>

InitOther ==
    /\ InitConcurrent
    /\ InitAnalysis
    /\ InitUnmounted

InitGenerator ==
    /\ impl = "none"
    /\ limit = 0
    /\ dimensions = 0
    /\ clusterCenters = <<>>
    /\ data = <<>>
    /\ pc = "idle"

Init ==
    /\ rng \in 0..MaxSeed
    /\ InitGenerator
    /\ InitProjector
    /\ InitHttp
    /\ InitOther

\* generateVectorData(lim, dims) is entered: lines 130-138
GoCall(lim, dims) ==
    /\ pc = "idle"
    /\ impl' = "go"
    /\ limit' = lim
    /\ dimensions' = dims
    /\ data' = <<>>
    /\ IF dims < 0 \/ lim < 0
       THEN /\ pc' = "panic"
            /\ UNCHANGED <<clusterCenters, rng>>
       ELSE /\ pc' = "loop"
            /\ clusterCenters' = goClusterCenters(dims, rng)
            /\ rng' = Advance(rng, Len(sampleClusters) * dims)
    /\ UNCHANGED <<projVars, httpVars, otherVars>>

\* mutant: the loop condition i <= limit
GoGenerateItemOffByOne ==
    /\ pc = "loop"
    /\ impl = "go"
    /\ Len(data) <= limit
    /\ LET r == goItem(Len(data), clusterCenters, dimensions, rng)
       IN  /\ rng' = r.rng
           /\ data' = Append(data, r.item)
           /\ pc' = "loop"
    /\ UNCHANGED <<impl, limit, dimensions, clusterCenters, projVars, httpVars,
                   otherVars>>

\* one iteration of the loop of lines 141-187
GoGenerateItem ==
    /\ pc = "loop"
    /\ impl = "go"
    /\ Len(data) < limit
    /\ LET r == goItem(Len(data), clusterCenters, dimensions, rng)
       IN  /\ rng' = r.rng
           /\ IF r.ok
              THEN /\ data' = Append(data, r.item)
                   /\ pc' = "loop"
              ELSE /\ pc' = "panic"
                   /\ UNCHANGED data
    /\ UNCHANGED <<impl, limit, dimensions, clusterCenters, projVars, httpVars,
                   otherVars>>

\* MockDataService.fetchVectorData({limit: lim, dimensions: dims}) is entered
TsCall(lim, dims) ==
    /\ pc = "idle"
    /\ impl' = "ts"
    /\ limit' = lim
    /\ dimensions' = dims
    /\ data' = <<>>
    /\ pc' = "loop"
    /\ clusterCenters' = tsClusterCenters(dims, rng)
    /\ rng' = Advance(rng, Len(sampleClusters) * (IF dims < 0 THEN 0 ELSE dims))
    /\ UNCHANGED <<projVars, httpVars, otherVars>>

\* one iteration of the loop of fetchVectorData
TsGenerateItem ==
    /\ pc = "loop"
    /\ impl = "ts"
    /\ Len(data) < limit
    /\ LET r == tsItem(Len(data), clusterCenters, rng)
       IN  /\ rng' = r.rng
           /\ IF r.ok
              THEN /\ data' = Append(data, r.item)
                   /\ pc' = "loop"
              ELSE /\ pc' = "panic"
                   /\ UNCHANGED data
    /\ UNCHANGED <<impl, limit, dimensions, clusterCenters, projVars, httpVars,
                   otherVars>>

\* the loop condition fails: return data
GenerateReturn ==
    /\ pc = "loop"
    /\ Len(data) >= limit
    /\ pc' = "returned"
    /\ UNCHANGED <<rng, impl, limit, dimensions, clusterCenters, data,
                   projVars, httpVars, otherVars>>

Limits == 0..MaxLimit
Dimensionalities == -1..MaxDimensions

Next ==
    \/ \E lim \in Limits, dims \in Dimensionalities : GoCall(lim, dims)
    \/ GoGenerateItem
    \/ \E lim \in Limits, dims \in Dimensionalities : TsCall(lim, dims)
    \/ TsGenerateItem
    \/ GenerateReturn

Spec == Init /\ [][Next]_vars

----------------------------------------------------------------------------
(* Properties of the generator, checked under Spec *)

ClusterVocabulary == {sampleClusters[c] : c \in 1..Len(sampleClusters)}

\* C1: for every count >= 0 and every dimensionality d >= 1 the generator
\* (Go and TypeScript) does not fail, never holds more than count items, has
\* exactly count items when it returns (none for count = 0), and every
\* item's vector has length exactly d.
C1_CountAndVectorLength ==
    dimensions >= 1 =>
        /\ pc # "panic"
        /\ Len(data) <= limit
        /\ pc = "returned" => Len(data) = limit
        /\ \A k \in 1..Len(data) : Len(data[k].vector) = dimensions

\* a call has returned several items of several dimensions
C1_Witness ==
    /\ pc = "returned"
    /\ limit >= 2
    /\ dimensions >= 2
    /\ Len(data) = limit

\* C2: every generated item's clusters list has 1 to 3 entries, pairwise
\* distinct, each one of the 10 names of the cluster vocabulary.
C2_ClustersDistinctFromVocabulary ==
    /\ Cardinality(ClusterVocabulary) = 10
    /\ \A k \in 1..Len(data) :
          LET cl == data[k].clusters
          IN  /\ Len(cl) >= 1
              /\ Len(cl) <= 3
              /\ \A a \in 1..Len(cl) : cl[a] \in ClusterVocabulary
              /\ \A a \in 1..Len(cl), b \in 1..Len(cl) :
                    a # b => cl[a] # cl[b]

\* an item was given three clusters in an order the shuffle produced
C2_Witness ==
    \E k \in 1..Len(data) :
        /\ Len(data[k].clusters) = 3
        /\ data[k].clusters # SubSeq(sampleClusters, 1, 3)

\* C3: for every generated item the center of clusters[0] is found, every
\* vector component differs from that center's component by at most 0.25
\* (RandUnits steps) and lies within [-1.25, 1.25] (5 * RandUnits steps); the
\* only failure of a call is make() with a negative length, never the lookup.
C3_VectorNearPrimaryCenter ==
    /\ pc = "panic" => (impl = "go" /\ dimensions < 0 /\ Len(data) = 0)
    /\ \A k \in 1..Len(data) :
          /\ Len(data[k].clusters) >= 1
          /\ IndexOf(sampleClusters, data[k].clusters[1]) >= 0
          /\ LET center ==
                     clusterCenters[IndexOf(sampleClusters, data[k].clusters[1]) + 1]
             IN  \A j \in 1..Len(data[k].vector) :
                    /\ Abs(data[k].vector[j] - center[j]) <= RandUnits
                    /\ Abs(data[k].vector[j]) <= 5 * RandUnits

\* a component left the range [-1, 1] of the centers because of the noise
C3_Witness ==
    \E k \in 1..Len(data) : \E j \in 1..Len(data[k].vector) :
        Abs(data[k].vector[j]) > 4 * RandUnits

\* C7: a generator call with dimensions < 1 that was asked for items fails:
\* it never returns normally (with items whose vectors have length 0).
C7_DimensionsBelowOneRejected ==
    (dimensions < 1 /\ limit >= 1) => pc # "returned"

----------------------------------------------------------------------------
(* The projector applied to bounded inputs *)

MaxItems == 2

Values == {-1, 0, 3, 6}

\* vectors of length n made of three runs of one value each, cut anywhere
StepVectors(n) ==
    {[j \in 1..n |-> IF j <= p THEN a ELSE IF j <= q THEN b ELSE c] :
        a \in Values, b \in Values, c \in Values, p \in 0..n, q \in 0..n}

\* the vector 0, 1, ..., n-1
Ramp(n) == [j \in 1..n |-> j - 1]

InputVectors ==
    UNION {StepVectors(n) \cup {Ramp(n)} : n \in 0..MaxLen}

ClusterLists == {<<>>, <<"Group C">>, <<"Group B", "Group A">>}

InputItem(i, v, cl) ==
    [id |-> i, key |-> "k", vector |-> v,
     metadata |-> [name |-> "Basic Alpha", rating |-> i + 1],
     clusters |-> cl]

SmallItems ==
    {InputItem(i, v, cl) :
        i \in 0..1, v \in {<<>>, <<3, 6>>, Ramp(3), Ramp(4)}, cl \in ClusterLists}

RECURSIVE SeqsOf(_, _)
SeqsOf(S, n) ==
    IF n = 0 THEN {<<>>}
    ELSE {Append(q, x) : q \in SeqsOf(S, n - 1), x \in S}

ProjectorInputs ==
    {<<InputItem(0, v, cl)>> : v \in InputVectors, cl \in ClusterLists}
        \cup UNION {SeqsOf(SmallItems, n) : n \in (0..MaxItems) \ {1}}

InitProject ==
    /\ rng = 0
    /\ InitGenerator
    /\ InitHttp
    /\ InitOther
    /\ items \in ProjectorInputs
    /\ projected = <<>>
    /\ blocks = <<>>
    /\ ppc = "called"

NextProject == Project

SpecProject == InitProject /\ [][NextProject]_vars

----------------------------------------------------------------------------
(* Properties of the projector, checked under SpecProject *)

\* the elements of v at the 0-based indices lo, ..., hi-1
IndexBlock(v, lo, hi) == [j \in 1..(hi - lo) |-> v[lo + j]]

RECURSIVE SumOf(_)
SumOf(a) == IF Len(a) = 0 THEN 0 ELSE a[Len(a)] + SumOf(SubSeq(a, 1, Len(a) - 1))

XLen(n) == (n \div 3) + (IF n % 3 > 0 THEN 1 ELSE 0)
YLen(n) == (n \div 3) + (IF n % 3 > 1 THEN 1 ELSE 0)

\* C4: for every vector length n the three slices the projector averages are
\* the index blocks [0,xLen), [xLen,xLen+yLen), [xLen+yLen,n); together they
\* are the vector, each index in exactly one of them; the divisors are xLen,
\* yLen and floor(n/3), and the third block has exactly floor(n/3) elements;
\* n = 9, 10, 11 give 3,3,3 and 4,3,3 and 4,4,3.
C4_BlocksPartitionVector ==
    ppc = "done" =>
        \A k \in 1..Len(items) :
            LET v == items[k].vector
                n == Len(v)
                b == blocks[k]
            IN  /\ b.xDims = XLen(n)
                /\ b.yDims = YLen(n)
                /\ b.zDims = n \div 3
                /\ b.x = IndexBlock(v, 0, XLen(n))
                /\ b.y = IndexBlock(v, XLen(n), XLen(n) + YLen(n))
                /\ b.z = IndexBlock(v, XLen(n) + YLen(n), n)
                /\ b.x \o b.y \o b.z = v
                /\ Len(b.z) = n - XLen(n) - YLen(n)
                /\ Len(b.z) = b.zDims
                /\ n = 9 => <<Len(b.x), Len(b.y), Len(b.z)>> = <<3, 3, 3>>
                /\ n = 10 => <<Len(b.x), Len(b.y), Len(b.z)>> = <<4, 3, 3>>
                /\ n = 11 => <<Len(b.x), Len(b.y), Len(b.z)>> = <<4, 4, 3>>

\* the vector 0..9 of length 10 was split 4,3,3
C4_Witness ==
    /\ ppc = "done"
    /\ Len(items) = 1
    /\ items[1].vector = Ramp(10)
    /\ blocks[1].x = <<0, 1, 2, 3>>
    /\ blocks[1].z = <<7, 8, 9>>

\* coordinate c is 5 times the mean of block b: c = 5 * sum(b) / len(b)
IsFiveTimesMean(c, b) ==
    /\ c.kind = "finite"
    /\ Len(b) > 0
    /\ c.den > 0
    /\ c.num * Len(b) = 5 * SumOf(b) * c.den

\* every coordinate of item k's position is 5 times the mean of its block
ScaledBlockMeans(k) ==
    LET v == items[k].vector
        n == Len(v)
        position == projected[k].position
    IN  /\ IsFiveTimesMean(position[1], IndexBlock(v, 0, XLen(n)))
        /\ IsFiveTimesMean(position[2],
                           IndexBlock(v, XLen(n), XLen(n) + YLen(n)))
        /\ IsFiveTimesMean(position[3], IndexBlock(v, XLen(n) + YLen(n), n))

\* C5 as stated: for every vector of length n >= 3 each coordinate of the
\* position is 5 times the arithmetic mean of its block, and
\* [0,0,0,3,3,3,6,6,6] gives (5, 20, 35).
C5_PositionFiveTwentyThirtyFive ==
    ppc = "done" =>
        \A k \in 1..Len(items) :
            Len(items[k].vector) >= 3 =>
                /\ ScaledBlockMeans(k)
                /\ items[k].vector = <<0, 0, 0, 3, 3, 3, 6, 6, 6>> =>
                      projected[k].position
                          = <<Fraction(5, 1), Fraction(20, 1), Fraction(35, 1)>>

\* C5 as amended: for every vector of length n >= 3 each coordinate of the
\* position is 5 times the arithmetic mean of its block, and
\* [0,0,0,3,3,3,6,6,6] (block means 0, 3, 6) gives (0, 15, 30).
C5_PositionIsScaledBlockMean ==
    ppc = "done" =>
        \A k \in 1..Len(items) :
            Len(items[k].vector) >= 3 =>
                /\ ScaledBlockMeans(k)
                /\ items[k].vector = <<0, 0, 0, 3, 3, 3, 6, 6, 6>> =>
                      projected[k].position
                          = <<Fraction(0, 1), Fraction(15, 1), Fraction(30, 1)>>

\* the vector [0,0,0,3,3,3,6,6,6] was projected
C5_Witness ==
    /\ ppc = "done"
    /\ Len(items) = 1
    /\ items[1].vector = <<0, 0, 0, 3, 3, 3, 6, 6, 6>>
    /\ projected[1].position[3].num = 30

\* C6: project never returns normally for an item whose vector has fewer than
\* 3 elements, and no returned position contains NaN or an infinity.
C6_ShortVectorRejected ==
    ppc = "done" =>
        \A k \in 1..Len(items) :
            /\ Len(items[k].vector) >= 3
            /\ \A c \in 1..3 : projected[k].position[c].kind = "finite"

\* C9: the call returns a sequence of the same length and order in which
\* item k carries id, key, vector, metadata and clusters of input item k,
\* a position, and primaryCluster = clusters[0] (undefined when clusters is
\* empty); the input sequence is the same after the call as before.
C9_ItemsCarriedAndInputKept ==
    [][ppc' = "done" =>
        /\ items' = items
        /\ Len(projected') = Len(items)
        /\ \A k \in 1..Len(items) :
              /\ \A f \in {"id", "key", "vector", "metadata", "clusters"} :
                    projected'[k][f] = items[k][f]
              /\ "position" \in DOMAIN projected'[k]
              /\ Len(projected'[k].position) = 3
              /\ projected'[k].primaryCluster =
                    (IF Len(items[k].clusters) = 0
                     THEN Undefined ELSE items[k].clusters[1])]_vars

\* two different items were projected, one without clusters, one with two
C9_Witness ==
    /\ ppc = "done"
    /\ Len(items) = 2
    /\ Len(projected) = 2
    /\ items[1].clusters = <<>>
    /\ Len(items[2].clusters) = 2
    /\ items[1].vector # items[2].vector
    /\ projected[1].primaryCluster = Undefined
    /\ projected[2].primaryCluster = "Group B"

----------------------------------------------------------------------------
(* Go backend: handleVectorData *)

\* w.Header().Set(key, value)
SetHeader(h, key, value) ==
    [x \in DOMAIN h \cup {key} |-> IF x = key THEN value ELSE h[x]]

\* value of a run of decimal digits, -1 when a character is not a digit
RECURSIVE ParseDigits(_, _)
ParseDigits(str, acc) ==
    IF Len(str) = 0 THEN acc
    ELSE IF IndexOf(Digits, Head(str)) < 0 THEN -1
    ELSE ParseDigits(Tail(str), acc * 10 + IndexOf(Digits, Head(str)))

\* strconv.Atoi on a string given as its sequence of characters: an
\* optional sign, then one or more decimal digits
Atoi(str) ==
    LET signed == Len(str) > 0 /\ str[1] \in {"+", "-"}
        body == IF signed THEN Tail(str) ELSE str
        n == ParseDigits(body, 0)
    IN  IF Len(body) = 0 \/ n < 0
        THEN [err |-> TRUE, val |-> 0]
        ELSE [err |-> FALSE, val |-> IF signed /\ str[1] = "-" THEN -n ELSE n]

DefaultLimit == 500
DefaultDimensions == 100

\* mutant: the test parsed >= 0
queryParamAllowZero(str, default) ==
    IF str # <<>> /\ ~Atoi(str).err /\ Atoi(str).val >= 0
    THEN Atoi(str).val
    ELSE default

\* lines 215-221 and 223-229: the value used for a query parameter
queryParam(str, default) ==
    IF str # <<>> /\ ~Atoi(str).err /\ Atoi(str).val > 0
    THEN Atoi(str).val
    ELSE default

\* mutant: the preflight headers name GET only
CorsHeadersGetOnly ==
    SetHeader(SetHeader(SetHeader(<<>>,
        "Access-Control-Allow-Origin", "*"),
        "Access-Control-Allow-Methods", "GET"),
        "Access-Control-Allow-Headers", "Content-Type")

\* lines 195-197: the CORS headers
CorsHeaders ==
    SetHeader(SetHeader(SetHeader(<<>>,
        "Access-Control-Allow-Origin", "*"),
        "Access-Control-Allow-Methods", "GET, OPTIONS"),
        "Access-Control-Allow-Headers", "Content-Type")

\* the handler serves the waiting request
HandleVectorData ==
    /\ request.method # ""
    /\ response.status = 0
    /\ IF request.method = "OPTIONS"
       THEN /\ response' = [status |-> 200, headers |-> CorsHeaders,
                            body |-> NoBody]
            /\ UNCHANGED rng
       ELSE IF request.method # "GET"
       THEN /\ response' =
                  [status |-> 405,
                   headers |-> SetHeader(SetHeader(CorsHeaders,
                       "Content-Type", "text/plain; charset=utf-8"),
                       "X-Content-Type-Options", "nosniff"),
                   body |-> [kind |-> "text", text |-> "Method not allowed\n",
                             data |-> <<>>, total |-> 0]]
            /\ UNCHANGED rng
       ELSE \E g \in {generateVectorData(
                           queryParam(request.limit, DefaultLimit),
                           queryParam(request.dimensions, DefaultDimensions),
                           rng)} :
                /\ response' =
                      IF g.ok
                      THEN [status |-> 200,
                            headers |-> SetHeader(CorsHeaders,
                                "Content-Type", "application/json"),
                            body |-> [kind |-> "json", text |-> "",
                                      data |-> g.data, total |-> Len(g.data)]]
                      ELSE \* a panic: the server drops the connection
                           [status |-> -1, headers |-> CorsHeaders,
                            body |-> NoBody]
                /\ rng' = g.rng
    /\ UNCHANGED <<request, genVars, projVars, otherVars>>

\* Number.prototype.toString of an integer, as a sequence of characters
RECURSIVE DecimalChars(_)
DecimalChars(n) ==
    IF n < 0 THEN <<"-">> \o DecimalChars(-n)
    ELSE IF n < 10 THEN <<Digits[n + 1]>>
    ELSE Append(DecimalChars(n \div 10), Digits[(n % 10) + 1])

MaxHttpSeed == 1

Methods == {"GET", "OPTIONS", "POST", "DELETE"}

\* query values that are not decimal integers
JunkTexts == {<<"a", "b", "c">>, <<"1", ".", "5">>, <<"-">>}

QueryTexts ==
    {<<>>} \cup JunkTexts
        \cup {DecimalChars(n) : n \in -1..MaxQuery}
        \cup {<<"+">> \o DecimalChars(MaxQuery - 1),
              <<"0">> \o DecimalChars(MaxQuery)}

InitServe ==
    /\ rng \in 0..MaxHttpSeed
    /\ InitGenerator
    /\ InitProjector
    /\ request \in [method : Methods, limit : QueryTexts, dimensions : QueryTexts]
    /\ InitOther
    /\ response = NoResponse

NextServe == HandleVectorData

SpecServe == InitServe /\ [][NextServe]_vars

----------------------------------------------------------------------------
(* Properties of the HTTP handler, checked under SpecServe *)

\* the texts that spell the positive integer n
Spellings(n) ==
    {DecimalChars(n), <<"+">> \o DecimalChars(n), <<"0">> \o DecimalChars(n)}

\* the value a query text stands for: the positive integer it spells, and
\* the default when it is missing, not an integer, zero or negative
IntendedValue(text, default) ==
    IF \E n \in 1..MaxQuery : text \in Spellings(n)
    THEN CHOOSE n \in 1..MaxQuery : text \in Spellings(n)
    ELSE default

\* C10: a GET is answered with status 200 and data: as many items as the
\* limit text stands for (500 when missing, not an integer, zero or
\* negative), each with a vector as long as the dimensions text stands for
\* (100 in those cases), each parameter independently of the other.
C10_QueryDefaults ==
    (request.method = "GET" /\ response.status # 0) =>
        /\ response.status = 200
        /\ response.body.kind = "json"
        /\ Len(response.body.data) = IntendedValue(request.limit, 500)
        /\ response.body.total = IntendedValue(request.limit, 500)
        /\ \A k \in 1..Len(response.body.data) :
              Len(response.body.data[k].vector)
                  = IntendedValue(request.dimensions, 100)

\* an unparsable limit next to a valid dimensions value: 500 items of
\* length 2
C10_Witness ==
    /\ request.method = "GET"
    /\ request.limit = <<"a", "b", "c">>
    /\ request.dimensions = <<"2">>
    /\ response.status = 200
    /\ Len(response.body.data) = 500
    /\ Len(response.body.data[500].vector) = 2

\* the response carries the three CORS headers
HasCors(resp) ==
    /\ {"Access-Control-Allow-Origin", "Access-Control-Allow-Methods",
         "Access-Control-Allow-Headers"} \subseteq DOMAIN resp.headers
    /\ resp.headers["Access-Control-Allow-Origin"] = "*"
    /\ resp.headers["Access-Control-Allow-Methods"] = "GET, OPTIONS"
    /\ resp.headers["Access-Control-Allow-Headers"] = "Content-Type"

\* C11: the step that answers a request gives OPTIONS status 200 and no
\* body, gives every method other than GET and OPTIONS status 405 with no
\* data and without drawing from the random source, and puts the three CORS
\* headers (any origin, GET and OPTIONS, Content-Type) on every response.
C11_MethodsAndCors ==
    [][(response.status = 0 /\ response'.status # 0) =>
          /\ HasCors(response')
          /\ request.method = "OPTIONS" =>
                /\ response'.status = 200
                /\ response'.body = NoBody
                /\ rng' = rng
          /\ request.method \notin {"GET", "OPTIONS"} =>
                /\ response'.status = 405
                /\ response'.body.kind # "json"
                /\ response'.body.data = <<>>
                /\ rng' = rng]_vars

\* a DELETE was answered 405 with the CORS headers
C11_Witness ==
    /\ request.method = "DELETE"
    /\ response.status = 405
    /\ HasCors(response)

----------------------------------------------------------------------------
(* Further properties of the generators, checked under Spec *)

\* the item at 0-based position i carries id i: the decimal string of i in
\* the Go generator, the number i in the TypeScript one
IdsArePositions ==
    \A k \in 1..Len(data) :
        IF impl = "go" THEN data[k].id = Itoa(k - 1) ELSE data[k].id = k - 1

\* C12: in every batch the item at 0-based position i has id i (the number,
\* or its decimal string), so ids are pairwise distinct, and every step keeps
\* the items produced so far in place, so the returned order is the order
\* of generation.
C12_IdsArePositions ==
    [][/\ IdsArePositions'
       /\ \A j, k \in 1..Len(data') : j # k => data'[j].id # data'[k].id
       /\ Len(data') >= Len(data)
       /\ SubSeq(data', 1, Len(data)) = data]_vars

\* a returned Go batch of three items whose last id is "2"
C12_Witness ==
    /\ pc = "returned"
    /\ impl = "go"
    /\ Len(data) = MaxLimit
    /\ data[MaxLimit].id = Itoa(MaxLimit - 1)

MetadataFields ==
    {"name", "type", "category", "rating", "value", "status", "priority",
     "region", "department", "created", "isActive", "score", "tags"}

\* C14: every generated item's metadata has exactly the 13 fields name,
\* type, category, rating, value, status, priority, region, department,
\* created, isActive, score and tags, and its tags are 0 to 5 pairwise
\* distinct strings of the attributes vocabulary.
C14_MetadataFieldsAndTags ==
    \A k \in 1..Len(data) :
        /\ DOMAIN data[k].metadata = MetadataFields
        /\ Cardinality(DOMAIN data[k].metadata) = 13
        /\ LET tags == data[k].metadata.tags
           IN  /\ Len(tags) \in 0..5
               /\ \A j \in 1..Len(tags) :
                     \E a \in 1..Len(sampleAttributes) :
                         tags[j] = sampleAttributes[a]
               /\ \A i, j \in 1..Len(tags) : i # j => tags[i] # tags[j]

\* a returned batch with an item that has five tags and one that has none
C14_Witness ==
    /\ pc = "returned"
    /\ \E k \in 1..Len(data) : Len(data[k].metadata.tags) = 5
    /\ \E k \in 1..Len(data) : Len(data[k].metadata.tags) = 0

----------------------------------------------------------------------------
(* Go backend: overlapping requests.  net/http serves every request in its *)
(* own goroutine, so two calls of generateVectorData may run at once.  The  *)
(* centers and the data slice are locals of the call; rand.Float64 and     *)
(* rand.Intn draw from the one source of package math/rand, which is        *)
(* shared by the process and guarded by a lock.  A step is the             *)
(* construction of the centers or one iteration of the item loop.          *)

MaxCallSeed == 2
MaxCallLimit == 2
MaxCallDimensions == 2

Requests == {1, 2}

\* a goroutine that has not entered generateVectorData; entry records the
\* state of the random source the call finds when it starts
IdleCall ==
    [pc |-> "idle", limit |-> 0, dimensions |-> 0, clusterCenters |-> <<>>,
     data |-> <<>>, entry |-> 0]

\* mutant: the centers are kept in one place for all calls
ServeCallSharedCenters(p, lim, dims) ==
    /\ calls[p].pc = "idle"
    /\ calls' = [q \in Requests |->
                    IF q = p
                    THEN [pc |-> "loop", limit |-> lim, dimensions |-> dims,
                          clusterCenters |-> goClusterCenters(dims, rng),
                          data |-> <<>>, entry |-> rng]
                    ELSE [calls[q] EXCEPT
                              !.clusterCenters = goClusterCenters(dims, rng)]]
    /\ rng' = Advance(rng, Len(sampleClusters) * dims)
    /\ UNCHANGED <<genVars, projVars, httpVars, anaVars, sceneVars>>

\* request p enters generateVectorData(lim, dims): lines 130-138
ServeCall(p, lim, dims) ==
    /\ calls[p].pc = "idle"
    /\ calls' = [calls EXCEPT ![p] =
                    [pc |-> "loop", limit |-> lim, dimensions |-> dims,
                     clusterCenters |-> goClusterCenters(dims, rng),
                     data |-> <<>>, entry |-> rng]]
    /\ rng' = Advance(rng, Len(sampleClusters) * dims)
    /\ UNCHANGED <<genVars, projVars, httpVars, anaVars, sceneVars>>

\* one iteration of the loop of lines 141-187 in request p
ServeGenerateItem(p) ==
    /\ calls[p].pc = "loop"
    /\ Len(calls[p].data) < calls[p].limit
    /\ LET r == goItem(Len(calls[p].data), calls[p].clusterCenters,
                       calls[p].dimensions, rng)
       IN  /\ rng' = r.rng
           /\ calls' = [calls EXCEPT ![p].data = Append(@, r.item)]
    /\ UNCHANGED <<genVars, projVars, httpVars, anaVars, sceneVars>>

\* line 189: request p returns its data
ServeReturn(p) ==
    /\ calls[p].pc = "loop"
    /\ Len(calls[p].data) >= calls[p].limit
    /\ calls' = [calls EXCEPT ![p].pc = "returned"]
    /\ UNCHANGED <<rng, genVars, projVars, httpVars, anaVars, sceneVars>>

\* the handler passes limit > 0 and dimensions > 0 only (lines 215-229)
CallLimits == 1..MaxCallLimit
CallDimensions == 1..MaxCallDimensions

InitCalls ==
    /\ rng \in 0..MaxCallSeed
    /\ InitGenerator
    /\ InitProjector
    /\ InitHttp
    /\ InitAnalysis
    /\ InitUnmounted
    /\ calls = [p \in Requests |-> IdleCall]

NextCalls ==
    \/ \E p \in Requests, lim \in CallLimits, dims \in CallDimensions :
          ServeCall(p, lim, dims)
    \/ \E p \in Requests : ServeGenerateItem(p)
    \/ \E p \in Requests : ServeReturn(p)

SpecCalls == InitCalls /\ [][NextCalls]_vars

----------------------------------------------------------------------------
(* Properties of overlapping requests, checked under SpecCalls *)

CentersBuilt(c) ==
    /\ Len(c.clusterCenters) = Len(sampleClusters)
    /\ \A k \in 1..Len(c.clusterCenters) :
          Len(c.clusterCenters[k]) = c.dimensions

----------------------------------------------------------------------------
(* Data analysis library: getTopClusters, analyzeMetadataFields,           *)
(* getColorMapping.  A metadata value is a JavaScript value: a record with *)
(* its type and, by type, its text or its number (a boolean is the number  *)
(* 1 or 0).  An item's metadata is the sequence of its [field, value]       *)
(* entries in the order Object.entries gives them.                         *)

Str(text) == [type |-> "string", text |-> text, num |-> 0]
Num(n) == [type |-> "number", text |-> "", num |-> n]
Bool(b) == [type |-> "boolean", text |-> "", num |-> IF b THEN 1 ELSE 0]
Null == [type |-> "null", text |-> "", num |-> 0]
EmptyArray == [type |-> "object", text |-> "", num |-> 0]
Missing == [type |-> "undefined", text |-> "", num |-> 0]

\* String(value); the only object is the empty array, whose string is empty
JsString(v) ==
    IF v.type \in {"string", "object"} THEN v.text
    ELSE IF v.type = "number" THEN Itoa(v.num)
    ELSE IF v.type = "boolean" THEN (IF v.num = 1 THEN "true" ELSE "false")
    ELSE v.type

RECURSIVE Flatten(_)
Flatten(seqs) ==
    IF Len(seqs) = 0 THEN <<>> ELSE Head(seqs) \o Flatten(Tail(seqs))

\* the elements of a sequence, each at its first occurrence
RECURSIVE Dedupe(_)
Dedupe(seq) ==
    IF Len(seq) = 0 THEN <<>>
    ELSE LET front == Dedupe(SubSeq(seq, 1, Len(seq) - 1))
             last == seq[Len(seq)]
         IN  IF \E k \in 1..Len(front) : front[k] = last
             THEN front
             ELSE Append(front, last)

Occurrences(seq, x) == Cardinality({k \in 1..Len(seq) : seq[k] = x})

\* the array index a property key spells, -1 when it spells none (keys of
\* one character)
ArrayIndex(key) == IndexOf(Digits, key)

\* the own keys of an object whose keys were inserted in the given order:
\* the keys that spell array indices in ascending order, then the others in
\* insertion order
OwnKeys(inserted) ==
    LET isIndex(key) == ArrayIndex(key) >= 0
        indices == {ArrayIndex(inserted[k]) : k \in 1..Len(inserted)} \ {-1}
        RECURSIVE Ascending(_)
        Ascending(set) ==
            IF set = {} THEN <<>>
            ELSE LET least == CHOOSE n \in set : \A m \in set : n <= m
                 IN  <<Itoa(least)>> \o Ascending(set \ {least})
    IN  Ascending(indices) \o SelectSeq(inserted, LAMBDA key : ~isIndex(key))

\* Array.prototype.sort((a, b) => b.count - a.count): a stable sort by
\* count, descending
RECURSIVE SortByCount(_)
SortByCount(stats) ==
    IF Len(stats) = 0 THEN <<>>
    ELSE LET sorted == SortByCount(SubSeq(stats, 1, Len(stats) - 1))
             last == stats[Len(stats)]
             ahead == Cardinality({k \in 1..Len(sorted) :
                                      sorted[k].count >= last.count})
         IN  SubSeq(sorted, 1, ahead) \o <<last>>
                 \o SubSeq(sorted, ahead + 1, Len(sorted))

\* mutant: the sort is by count ascending
getTopClustersAscending(batch, maxClusters) ==
    LET all == Flatten([k \in 1..Len(batch) |-> batch[k].clusters])
        names == OwnKeys(Dedupe(all))
        clusterStats == [k \in 1..Len(names) |->
                            [name |-> names[k],
                             count |-> -Occurrences(all, names[k])]]
        sorted == SortByCount(clusterStats)
    IN  Slice([k \in 1..Len(sorted) |->
                  [name |-> sorted[k].name, count |-> -sorted[k].count]],
              0, maxClusters)

\* lines 4-22
getTopClusters(batch, maxClusters) ==
    LET all == Flatten([k \in 1..Len(batch) |-> batch[k].clusters])
        names == OwnKeys(Dedupe(all))
        clusterStats == [k \in 1..Len(names) |->
                            [name |-> names[k],
                             count |-> Occurrences(all, names[k])]]
    IN  Slice(SortByCount(clusterStats), 0, maxClusters)

DefaultMaxCardinality == 10

\* lines 31-45: the entries the first pass counts, in the order it meets
\* them; null, undefined and object values are skipped
CountedEntries(batch) ==
    SelectSeq(Flatten([k \in 1..Len(batch) |-> batch[k].metadata]),
              LAMBDA e : e.value.type \notin {"null", "undefined", "object"})

\* fieldCounts[field]: the stringified values met for the field, in order
FieldValues(batch, field) ==
    LET own == SelectSeq(CountedEntries(batch), LAMBDA e : e.field = field)
    IN  [k \in 1..Len(own) |-> JsString(own[k].value)]

\* the entry of one field: lines 51-59
FieldEntry(batch, field) ==
    LET strs == FieldValues(batch, field)
    IN  [name |-> field,
         values |-> OwnKeys(Dedupe(strs)),
         counts |-> [v \in {strs[k] : k \in 1..Len(strs)} |->
                        Occurrences(strs, v)]]

\* lines 64-68: the entry unshifted in front
ClustersEntry(batch, maxCardinality) ==
    [name |-> "clusters",
     values |-> Slice(Dedupe(Flatten([k \in 1..Len(batch) |->
                                         batch[k].clusters])),
                      0, maxCardinality),
     counts |-> <<>>]

\* mutant: the window starts at one distinct value
analyzeMetadataFieldsFromOne(batch, maxCardinality) ==
    IF Len(batch) = 0 THEN <<>>
    ELSE LET counted == CountedEntries(batch)
             names == OwnKeys(Dedupe([k \in 1..Len(counted) |->
                                         counted[k].field]))
             all == [k \in 1..Len(names) |-> FieldEntry(batch, names[k])]
             lowCardinalityFields ==
                 SelectSeq(all, LAMBDA f : /\ Len(f.values) >= 1
                                           /\ Len(f.values) <= maxCardinality)
         IN  <<ClustersEntry(batch, maxCardinality)>> \o lowCardinalityFields

\* lines 25-71
analyzeMetadataFields(batch, maxCardinality) ==
    IF Len(batch) = 0 THEN <<>>
    ELSE LET counted == CountedEntries(batch)
             names == OwnKeys(Dedupe([k \in 1..Len(counted) |->
                                         counted[k].field]))
             all == [k \in 1..Len(names) |-> FieldEntry(batch, names[k])]
             lowCardinalityFields ==
                 SelectSeq(all, LAMBDA f : /\ Len(f.values) >= 2
                                           /\ Len(f.values) <= maxCardinality)
         IN  <<ClustersEntry(batch, maxCardinality)>> \o lowCardinalityFields

\* item.metadata[field]
MetadataValue(item, field) ==
    IF \E k \in 1..Len(item.metadata) : item.metadata[k].field = field
    THEN item.metadata[CHOOSE k \in 1..Len(item.metadata) :
                           item.metadata[k].field = field].value
    ELSE Missing

\* the colors of the visualization
COLORS ==
    <<"#FF5733", "#33FF57", "#3357FF", "#F033FF", "#FFFF33", "#33FFF5",
      "#FF33A8", "#A833FF", "#FF8C33", "#33FFB8">>

\* lines 74-113
getColorMapping(batch, field, colors) ==
    LET values ==
            IF field = "clusters"
            THEN LET top == getTopClusters(batch, Len(colors))
                 IN  [k \in 1..Len(top) |-> top[k].name]
            ELSE LET present ==
                         SelectSeq([k \in 1..Len(batch) |->
                                       MetadataValue(batch[k], field)],
                                   LAMBDA v : v.type \notin {"undefined", "null"})
                 IN  Dedupe([k \in 1..Len(present) |-> JsString(present[k])])
    IN  [mapping |-> [v \in {values[k] : k \in 1..Len(values)} |->
                         colors[(IndexOf(values, v) % Len(colors)) + 1]],
         values |-> values]

----------------------------------------------------------------------------
(* The analysis functions applied to the batches of a bounded set *)

MaxAnalysisItems == 3

TypeValues == <<Str("A"), Str("B"), Str("1"), Num(1), Null, Missing>>
ScoreValues == <<Num(1), Num(2)>>
ItemClusters ==
    <<<<"x">>, <<"y", "x">>, <<"z", "y">>, <<"1", "z">>, <<"x", "y", "z">>,
      <<"z">>>>

\* an item whose metadata has the fields type (when given), score, isActive
\* and tags
AnalysisItem(t, sc) ==
    [metadata |->
        (IF TypeValues[t].type = "undefined" THEN <<>>
         ELSE <<[field |-> "type", value |-> TypeValues[t]]>>)
        \o <<[field |-> "score", value |-> ScoreValues[sc]],
             [field |-> "isActive", value |-> Bool(sc = 1)],
             [field |-> "tags", value |-> EmptyArray]>>,
     clusters |-> ItemClusters[t]]

AnalysisItems ==
    {AnalysisItem(t, sc) : t \in 1..Len(TypeValues), sc \in 1..Len(ScoreValues)}

AnalysisBatches ==
    UNION {[1..n -> AnalysisItems] : n \in 0..MaxAnalysisItems}

MaxArgs == {1, 2, DefaultMaxCardinality}

\* analyzeMetadataFields(adata, maxArg) is called and returns
Analyze ==
    /\ "analyzeMetadataFields" \notin apc
    /\ fields' = analyzeMetadataFields(adata, maxArg)
    /\ apc' = apc \cup {"analyzeMetadataFields"}
    /\ UNCHANGED <<rng, adata, maxArg, topClusters, genVars, projVars,
                   httpVars, concVars, sceneVars>>

\* getTopClusters(adata, maxArg) is called and returns
TopClusters ==
    /\ "getTopClusters" \notin apc
    /\ topClusters' = getTopClusters(adata, maxArg)
    /\ apc' = apc \cup {"getTopClusters"}
    /\ UNCHANGED <<rng, adata, maxArg, fields, genVars, projVars,
                   httpVars, concVars, sceneVars>>

InitAnalyze ==
    /\ rng = 0
    /\ InitGenerator
    /\ InitProjector
    /\ InitHttp
    /\ InitConcurrent
    /\ InitUnmounted
    /\ adata \in AnalysisBatches
    /\ maxArg \in MaxArgs
    /\ fields = <<>>
    /\ topClusters = <<>>
    /\ apc = {}

NextAnalyze ==
    \/ Analyze
    \/ TopClusters

SpecAnalyze == InitAnalyze /\ [][NextAnalyze]_vars

----------------------------------------------------------------------------
(* Properties of the analysis functions, checked under SpecAnalyze *)

Primitive(v) == v.type \in {"string", "number", "boolean"}

\* the items of adata whose metadata holds a primitive value for the field
Holders(field) ==
    {k \in 1..Len(adata) : Primitive(MetadataValue(adata[k], field))}

\* the distinct stringified values the field takes over adata
DistinctStrings(field) ==
    {JsString(MetadataValue(adata[k], field)) : k \in Holders(field)}

\* C16: analyzeMetadataFields returns the empty list for empty data; for
\* non-empty data the first entry is named "clusters", and every other
\* entry is a metadata field with non-object values whose distinct
\* stringified values number at least 2 and at most maxCardinality, its
\* values being those strings and counts[v] the number of items holding v.
C16_LowCardinalityFields ==
    "analyzeMetadataFields" \in apc =>
        /\ Len(adata) = 0 => fields = <<>>
        /\ Len(adata) > 0 =>
              /\ Len(fields) >= 1
              /\ fields[1].name = "clusters"
              /\ \A k \in 2..Len(fields) :
                    LET f == fields[k]
                    IN  /\ Holders(f.name) # {}
                        /\ Cardinality(DistinctStrings(f.name)) >= 2
                        /\ Cardinality(DistinctStrings(f.name)) <= maxArg
                        /\ {f.values[j] : j \in 1..Len(f.values)}
                               = DistinctStrings(f.name)
                        /\ DOMAIN f.counts = DistinctStrings(f.name)
                        /\ \A v \in DistinctStrings(f.name) :
                              f.counts[v] =
                                  Cardinality({i \in Holders(f.name) :
                                      JsString(MetadataValue(adata[i], f.name)) = v})

\* three items, maxCardinality 2: type has three distinct strings and is
\* left out, score has two and is returned with its counts
C16_Witness ==
    /\ "analyzeMetadataFields" \in apc
    /\ Len(adata) = 3
    /\ maxArg = 2
    /\ Cardinality(DistinctStrings("type")) = 3
    /\ \A k \in 1..Len(fields) : fields[k].name # "type"
    /\ \E k \in 2..Len(fields) :
          /\ fields[k].name = "score"
          /\ fields[k].counts["1"] = 2

\* the places of adata where the cluster name occurs
ClusterOccurrences(name) ==
    {<<i, j>> \in (1..Len(adata)) \X (1..3) :
        j <= Len(adata[i].clusters) /\ adata[i].clusters[j] = name}

ClusterNames ==
    UNION {{adata[i].clusters[j] : j \in 1..Len(adata[i].clusters)} :
              i \in 1..Len(adata)}

\* C17: getTopClusters returns at most maxClusters entries, one per distinct
\* cluster name (all of them when there are no more than maxClusters), each
\* with the number of occurrences of the name over all items' clusters
\* lists as its count, in descending order of count, and no cluster left
\* out has a higher count than one returned.
C17_TopClustersByCount ==
    "getTopClusters" \in apc =>
        LET returned == {topClusters[k].name : k \in 1..Len(topClusters)}
        IN  /\ Len(topClusters) <= maxArg
            /\ Len(topClusters) =
                  IF Cardinality(ClusterNames) < maxArg
                  THEN Cardinality(ClusterNames) ELSE maxArg
            /\ returned \subseteq ClusterNames
            /\ \A j, k \in 1..Len(topClusters) :
                  j # k => topClusters[j].name # topClusters[k].name
            /\ \A k \in 1..Len(topClusters) :
                  topClusters[k].count =
                      Cardinality(ClusterOccurrences(topClusters[k].name))
            /\ \A j, k \in 1..Len(topClusters) :
                  j < k => topClusters[j].count >= topClusters[k].count
            /\ \A name \in ClusterNames \ returned :
                  \A k \in 1..Len(topClusters) :
                      Cardinality(ClusterOccurrences(name))
                          <= topClusters[k].count

\* two of four cluster names are returned, the first counted more often
\* than the second, which is counted more often than one left out
C17_Witness ==
    /\ "getTopClusters" \in apc
    /\ maxArg = 2
    /\ Cardinality(ClusterNames) = 4
    /\ Len(topClusters) = 2
    /\ topClusters[1].count > topClusters[2].count
    /\ \E name \in ClusterNames :
          Cardinality(ClusterOccurrences(name)) < topClusters[2].count

----------------------------------------------------------------------------
(* The page: VectorVisualization renders Scene with numPoints, colorField  *)
(* and its two callbacks.  An action is an event (a move of the slider, a  *)
(* choice in the "Color By" list, the settling of a fetch) with the state  *)
(* updates of its handler, the render they cause and the effects that the  *)
(* render runs.  The slider has two positions, 1 and 2, and a response    *)
(* that many items; the Canvas key is not changed.  The three components'  *)
(* state is passed around as st = [parent, scene, fetches].                *)

MaxFetches == 3

ErrorMessage ==
    "Failed to load data from API. Please check if the backend server is running."

\* a mapping as the list of its [value, color] entries, in the order of values
MappingEntries(coloring) ==
    [k \in 1..Len(coloring.values) |->
        [value |-> coloring.values[k],
         color |-> coloring.mapping[coloring.values[k]]]]

\* lines 186-201
updateColorMapping(st, rawData, field) ==
    IF Len(rawData) > 0 /\ field # ""
    THEN LET coloring == getColorMapping(rawData, field, COLORS)
         IN  [st EXCEPT
                 !.scene.colorMapping = MappingEntries(coloring),
                 !.scene.colorValues = coloring.values,
                 \* onColorMappingUpdate: lines 535-538
                 !.parent.colorMapping = MappingEntries(coloring),
                 !.parent.colorValues = coloring.values]
    ELSE st

\* lines 205-211 and 238: fetchData() up to its await; the request holds
\* the numPoints and, in its callbacks, the colorField of this render
fetchData(st) ==
    [st EXCEPT
        !.scene.loading = TRUE,
        !.scene.error = "null",
        !.fetches = Append(@, [numPoints |-> st.parent.numPoints,
                               colorField |-> st.parent.colorField,
                               status |-> "pending",
                               response |-> <<>>])]

\* lines 521-532: the handleFieldsAnalyzed of the render whose colorField
\* was the given one
handleFieldsAnalyzed(st, analyzed, colorField) ==
    [st EXCEPT
        !.parent.colorableFields = analyzed,
        !.parent.colorField =
            IF /\ Len(analyzed) > 0
               /\ ~\E k \in 1..Len(analyzed) : analyzed[k].name = colorField
            THEN analyzed[1].name
            ELSE @]

\* lines 242-246: the effect on [colorField, rawData, updateColorMapping]
colorEffect(st) ==
    IF Len(st.scene.rawData) > 0
    THEN updateColorMapping(st, st.scene.rawData, st.parent.colorField)
    ELSE st

\* the render after an event and its effects: the fetch effect runs when
\* numPoints or colorField (and with it onFieldsAnalyzed) changed, the
\* color effect when colorField or rawData changed
Render(before, st, newRawData) ==
    LET fetchDeps ==
            \/ st.parent.numPoints # before.parent.numPoints
            \/ st.parent.colorField # before.parent.colorField
        colorDeps ==
            \/ st.parent.colorField # before.parent.colorField
            \/ newRawData
        st1 == IF fetchDeps THEN fetchData(st) ELSE st
    IN  IF colorDeps THEN colorEffect(st1) ELSE st1

Current == [parent |-> parent, scene |-> scene, fetches |-> fetches]

Commit(st) ==
    /\ parent' = st.parent
    /\ scene' = st.scene
    /\ fetches' = st.fetches
    /\ UNCHANGED <<rng, genVars, projVars, httpVars, concVars, anaVars>>

PointCounts == {1, 2}

\* line 366: the slider is moved to n
SetNumPoints(n) ==
    /\ Len(fetches) < MaxFetches
    /\ n # parent.numPoints
    /\ Commit(Render(Current, [Current EXCEPT !.parent.numPoints = n], FALSE))

\* line 380: an option of the "Color By" list is chosen
SetColorField(field) ==
    /\ Len(fetches) < MaxFetches
    /\ field # parent.colorField
    /\ \E k \in 1..Len(parent.colorableFields) :
          parent.colorableFields[k].name = field
    /\ Commit(Render(Current, [Current EXCEPT !.parent.colorField = field],
                     FALSE))

\* the items a response may hold
SceneItem(i, kind) ==
    [id |-> Itoa(i),
     key |-> "k",
     vector |-> IF kind = "A" THEN <<0, 1, 2>> ELSE <<3, 6, 3>>,
     metadata |-> <<[field |-> "type", value |-> Str(kind)],
                    [field |-> "tags", value |-> EmptyArray]>>,
     clusters |-> IF kind = "A" THEN <<"x">> ELSE <<"y", "x">>]

\* the bodies the backend may send for limit = n: n items, ids 0..n-1
Responses(n) ==
    {[i \in 1..n |-> SceneItem(i - 1, kinds[i])] : kinds \in [1..n -> {"A", "B"}]}

\* lines 211-229 and 233-235: the fetch started k-th gets its response
FetchSucceeds(k, fetchedData) ==
    /\ k \in 1..Len(fetches)
    /\ fetches[k].status = "pending"
    /\ fetchedData \in Responses(fetches[k].numPoints)
    /\ LET analyzed == analyzeMetadataFields(fetchedData, DefaultMaxCardinality)
           captured == fetches[k].colorField
           st1 == [Current EXCEPT
                      !.fetches[k].status = "ok",
                      !.fetches[k].response = fetchedData,
                      !.scene.rawData = fetchedData,
                      !.scene.data = projectVectorsTo3D(fetchedData),
                      !.scene.colorableFields = analyzed]
           st2 == handleFieldsAnalyzed(st1, analyzed, captured)
           st3 == updateColorMapping(st2, fetchedData,
                      IF captured = "" THEN "clusters" ELSE captured)
           st4 == [st3 EXCEPT !.scene.loading = FALSE]
       IN  Commit(Render(Current, st4, TRUE))

\* lines 230-235: the fetch started k-th throws (no connection, or a
\* status that is not ok)
FetchFails(k) ==
    /\ k \in 1..Len(fetches)
    /\ fetches[k].status = "pending"
    /\ Commit([Current EXCEPT
                  !.fetches[k].status = "failed",
                  !.scene.error = ErrorMessage,
                  !.scene.loading = FALSE])

\* the page has been mounted: numPoints and colorField have their initial
\* values, the fetch effect has run once
InitScene ==
    /\ rng = 0
    /\ InitGenerator
    /\ InitProjector
    /\ InitHttp
    /\ InitConcurrent
    /\ InitAnalysis
    /\ \E n \in PointCounts :
          /\ parent = [numPoints |-> n, colorField |-> "clusters",
                       colorableFields |-> <<>>,
                       colorMapping |-> <<>>, colorValues |-> <<>>]
          /\ scene = [data |-> <<>>, rawData |-> <<>>, colorableFields |-> <<>>,
                      colorMapping |-> <<>>, colorValues |-> <<>>,
                      loading |-> TRUE, error |-> "null"]
          /\ fetches = <<[numPoints |-> n, colorField |-> "clusters",
                          status |-> "pending", response |-> <<>>]>>

NextScene ==
    \/ \E n \in PointCounts : SetNumPoints(n)
    \/ \E field \in {"clusters", "type", "tags"} : SetColorField(field)
    \/ \E k \in 1..MaxFetches + 1 :
          \E fetchedData \in UNION {Responses(n) : n \in PointCounts} :
              FetchSucceeds(k, fetchedData)
    \/ \E k \in 1..MaxFetches + 1 : FetchFails(k)

SpecScene == InitScene /\ [][NextScene]_vars

----------------------------------------------------------------------------
(* Properties of the page, checked under SpecScene *)

\* no fetch settles in the step: the fetches there were are as they were
NoFetchSettles ==
    /\ Len(fetches') >= Len(fetches)
    /\ \A k \in 1..Len(fetches) : fetches'[k] = fetches[k]

\* C15: a change of the "Color By" field only recomputes the color mapping:
\* the step starts no fetch and leaves the displayed items and their
\* positions as they were.
C15_ColorFieldStartsNoFetch ==
    [][(parent'.colorField # parent.colorField /\ NoFetchSettles) =>
          /\ fetches' = fetches
          /\ scene'.loading = scene.loading
          /\ scene'.data = scene.data
          /\ scene'.rawData = scene.rawData]_vars

AllSettled == \A k \in 1..Len(fetches) : fetches[k].status # "pending"

LastFetch == fetches[Len(fetches)]

\* C18: once every fetch has settled, the data displayed is the response
\* of the fetch started last (when it succeeded), in whatever order the
\* responses arrived.
C18_LastStartedFetchWins ==
    (AllSettled /\ LastFetch.status = "ok") =>
        /\ scene.rawData = LastFetch.response
        /\ scene.data = projectVectorsTo3D(LastFetch.response)

\* C19: when no fetch is in flight, loading is false and the error message
\* is set exactly when the fetch started last failed.
C19_ErrorTellsLastFetch ==
    AllSettled =>
        /\ scene.loading = FALSE
        /\ (scene.error # "null") <=> (LastFetch.status = "failed")

FieldNames(list) == {list[k].name : k \in 1..Len(list)}

\* C20: the step in which a fetch succeeds and handleFieldsAnalyzed takes
\* its non-empty list of fields leaves colorField among the names of
\* colorableFields: reset to the first field when the current colorField is
\* not among the fields, unchanged otherwise.
C20_ColorFieldAmongFields ==
    [][(\E k \in 1..Len(fetches) :
            fetches[k].status = "pending" /\ fetches'[k].status = "ok") =>
          (Len(parent'.colorableFields) > 0 =>
              /\ parent'.colorField \in FieldNames(parent'.colorableFields)
              /\ parent.colorField \notin FieldNames(parent'.colorableFields)
                    => parent'.colorField = parent'.colorableFields[1].name
              /\ parent.colorField \in FieldNames(parent'.colorableFields)
                    => parent'.colorField = parent.colorField)]_vars

====
